---- MODULE Spec2Model ----
(***************************************************************************)
(* Model of danesfield/segmentation/semantic/tasks/eval.py:                *)
(*   - Evaluator.index_in_copy_out   (the per-axis tile partitioner)       *)
(*   - Evaluator.predict_samples_large (the tile stitcher)                 *)
(*   - predict / to_numpy / flip_tensor_lr / flip_tensor_ud (TTA predictor)*)
(*   - Evaluator.predict / on_image_constructed (the fold evaluation loop) *)
(* Rasters are followed cell by cell; logits are integers in quarter       *)
(* units and probabilities are integers in per-mille.                      *)
(***************************************************************************)
EXTENDS Integers, Sequences, FiniteSets, TLC

VARIABLES
    pc,           \* position of the operation being run
    width,        \* argument of index_in_copy_out
    tiles,        \* value returned by index_in_copy_out
    dsize,        \* <<dsize[2], dsize[3]>> of data['image'] in predict_samples_large
    probe,        \* the canvas cell <<r, c>> that is followed through the stitching
    xidx,         \* the six lists returned for dsize[2]
    yidx,         \* the six lists returned for dsize[3]
    ti,           \* loop variable i of predict_samples_large
    tj,           \* loop variable j of predict_samples_large
    cell,         \* predicted[.., r, c]: Zero or the source cell <<sr, sc>> copied there
    cell_writes,  \* number of assignments that wrote predicted[.., r, c]
    model_calls,  \* number of model invocations made by the stitcher
    predicted,    \* value returned by predict_samples_large
    model_kind,   \* which model the predictor is given
    batch,        \* argument batch of predict: one image plane, rows of cells
    flips,        \* argument flips of predict
    masks,        \* the raw model outputs gathered by predict (pred1 first)
    new_mask,     \* torch.mean(torch.stack(masks, 0), 0)
    result,       \* the array returned by predict
    skip_folds,   \* argument skip_folds of Evaluator.predict
    save_images,  \* config.save_images
    fold,         \* loop variable fold of Evaluator.predict
    fold_batches, \* batches the current fold's loader has yielded
    all_batches,  \* batches yielded since the call
    prev_name,    \* self.prev_name
    full_pred,    \* self.full_pred
    full_mask,    \* self.full_mask
    need_dice,    \* self.need_dice
    dice,         \* self.dice
    dice_fold,    \* for each entry of self.dice, the fold that appended it
    datasets,     \* folds for which a validation dataset and loader were built
    models,       \* folds for which read_model was called
    processed,    \* for each batch processed, its fold
    finalized,    \* the calls of on_image_constructed: fold and image name
    saved,        \* the calls of self.save: fold and image name
    printed,      \* the means printed at line 192: fold and the list averaged
    batch_log,    \* for each batch processed, its image name and whether it has a mask
    model_raised  \* the model has raised during an inference call

vars == <<pc, width, tiles, dsize, probe, xidx, yidx, ti, tj, cell, cell_writes,
          model_calls, predicted, model_kind, batch, flips, masks, new_mask, result,
          skip_folds, save_images, fold, fold_batches, all_batches, prev_name,
          full_pred, full_mask, need_dice, dice, dice_fold, datasets, models,
          processed, finalized, saved, printed, batch_log, model_raised>>

partVars == <<width, tiles>>
stitchVars == <<dsize, probe, xidx, yidx, ti, tj, cell, cell_writes, model_calls, predicted>>
ttaVars == <<model_kind, batch, flips, masks, new_mask, result>>
\* the evaluator's variables but model_raised
foldVars == <<skip_folds, save_images, fold, fold_batches, all_batches, prev_name,
              full_pred, full_mask, need_dice, dice, dice_fold, datasets, models,
              processed, finalized, saved, printed, batch_log>>
evalVars == <<skip_folds, save_images, fold, fold_batches, all_batches, prev_name,
              full_pred, full_mask, need_dice, dice, dice_fold, datasets, models,
              processed, finalized, saved, printed, batch_log, model_raised>>

(***************************************************************************)
(* Bounds                                                                  *)
(***************************************************************************)
MaxDim == 5120
ProbeStride == 511
TensorRows == 2
TensorCols == 2
NumFolds == 3
MaxBatches == 4

(***************************************************************************)
(* Program constants                                                       *)
(***************************************************************************)
TileSize == 1024
HalfTile == 512

\* cell values are pairs; the zero of np.zeros is a pair no source cell has
Zero == <<-1, -1>>

\* The value of index_in_copy_out: None, or the six lists.  Unset stands for
\* a name that has not been bound yet.
NoLists == [insidx |-> <<>>, ineidx |-> <<>>, cpsidx |-> <<>>, cpeidx |-> <<>>,
            outsidx |-> <<>>, outeidx |-> <<>>]
None == [kind |-> "None", idx |-> NoLists]
Unset == [kind |-> "unset", idx |-> NoLists]
Lists(l) == [kind |-> "lists", idx |-> l]

(***************************************************************************)
(* Python arithmetic                                                       *)
(***************************************************************************)
\* int(np.ceil(a / float(b))) for a >= 0, b > 0
CeilDiv(a, b) == (a + b - 1) \div b

\* int(a / 2.0): truncation toward zero of a half-integer
TruncHalf(a) == IF a >= 0 THEN a \div 2 ELSE -((-a) \div 2)

\* a[start:stop] on an axis of length len: the index range <<lo, hi>> that
\* Python's slice.indices() selects (negative indices count from the end,
\* both ends are clamped, an inverted range is empty)
Clamp(v, len) == IF v < 0 THEN (IF v + len < 0 THEN 0 ELSE v + len)
                 ELSE (IF v > len THEN len ELSE v)

PySlice(start, stop, len) ==
    LET lo == Clamp(start, len)
        hi == Clamp(stop, len)
    IN  <<lo, IF hi < lo THEN lo ELSE hi>>

SliceLen(s) == s[2] - s[1]

(***************************************************************************)
(* Evaluator.index_in_copy_out                                             *)
(***************************************************************************)
\* the guard dropped: every width is split
TooSmall_never(w) == FALSE

\* the guard "if width < 1024"
TooSmall(w) == w < TileSize

\* cpwid after "if cpwid % 2 == 1: cpwid += 1"
RoundEven(c) == IF c % 2 = 1 THEN c + 1 ELSE c

index_in_copy_out(w) ==
    IF TooSmall(w) THEN None
    ELSE
    LET nwids == CeilDiv(w, TileSize)
        cpwid == RoundEven(w \div nwids)
        mids  == IF nwids - 2 > 0 THEN nwids - 2 ELSE 0     \* range(1, nwids-1)
        rest  == w - (nwids - 1) * cpwid
        ins(i)  == TruncHalf((2 * i + 1) * cpwid - 2 * HalfTile)
        midIns  == [i \in 1..mids |-> ins(i)]
        midIne  == [i \in 1..mids |-> ins(i) + TileSize]
        midCps  == [i \in 1..mids |-> TruncHalf(2 * HalfTile - cpwid)]
        midCpe  == [i \in 1..mids |-> TruncHalf(2 * HalfTile + cpwid)]
        midOuts == [i \in 1..mids |-> cpwid * i]
        midOute == [i \in 1..mids |-> cpwid * (i + 1)]
    IN  Lists(
        [insidx  |-> <<0>> \o midIns \o <<w - TileSize>>,
         ineidx  |-> <<TileSize>> \o midIne \o <<w>>,
         cpsidx  |-> <<0>> \o midCps \o <<TileSize - rest>>,
         cpeidx  |-> <<cpwid>> \o midCpe \o <<TileSize>>,
         outsidx |-> <<0>> \o midOuts \o <<w - rest>>,
         outeidx |-> <<cpwid>> \o midOute \o <<w>>])

(***************************************************************************)
(* Specification of the partitioner alone: one call per dimension          *)
(***************************************************************************)
StitchIdle ==
    /\ dsize = <<0, 0>> /\ probe = <<0, 0>>
    /\ xidx = Unset /\ yidx = Unset
    /\ ti = 0 /\ tj = 0
    /\ cell = Zero /\ cell_writes = 0
    /\ model_calls = 0 /\ predicted = "unset"

PartIdle == width = 0 /\ tiles = Unset

\* a raster attribute of the Evaluator: None, or the cells of one image row
NoRaster == [some |-> FALSE, px |-> <<>>]
Raster(px) == [some |-> TRUE, px |-> px]

\* skip_folds: None, or a set of fold indices
NoSkip == [given |-> FALSE, set |-> {}]
SkipSet(S) == [given |-> TRUE, set |-> S]

\* Evaluator.__init__, lines 120-130
EvalConstructed ==
    /\ full_mask = NoRaster /\ full_pred = NoRaster
    /\ prev_name = "None"
    /\ need_dice = FALSE
    /\ dice = <<>> /\ dice_fold = <<>>

EvalIdle ==
    /\ EvalConstructed
    /\ skip_folds = NoSkip /\ save_images = FALSE
    /\ fold = 0 /\ fold_batches = 0 /\ all_batches = 0
    /\ datasets = <<>> /\ models = <<>> /\ processed = <<>>
    /\ finalized = <<>> /\ saved = <<>> /\ printed = <<>>
    /\ batch_log = <<>> /\ model_raised = FALSE

TtaIdle ==
    /\ model_kind = "pointwise" /\ batch = <<>> /\ flips = 0
    /\ masks = <<>> /\ new_mask = <<>> /\ result = <<>>

InitPartition ==
    /\ pc = "call"
    /\ width \in 1..MaxDim
    /\ tiles = Unset
    /\ StitchIdle
    /\ TtaIdle
    /\ EvalIdle

IndexInCopyOut ==
    /\ pc = "call"
    /\ tiles' = index_in_copy_out(width)
    /\ pc' = "returned"
    /\ UNCHANGED <<width, stitchVars, ttaVars, evalVars>>

NextPartition == IndexInCopyOut

SpecPartition == InitPartition /\ [][NextPartition]_vars

NumTiles == Len(tiles.idx.insidx)

\* C1: for every dimension >= 1024 the output ranges, in order, partition
\* [0, dimension): the first starts at 0, each next one starts where the
\* previous ended, every range is non-empty (so no two overlap), and the last
\* ends at dimension.
ClaimC1_OutputsPartition ==
    (pc = "returned" /\ width >= TileSize) =>
        /\ tiles.idx.outsidx[1] = 0
        /\ \A k \in 1..(NumTiles - 1) : tiles.idx.outsidx[k + 1] = tiles.idx.outeidx[k]
        /\ \A k \in 1..NumTiles : tiles.idx.outsidx[k] < tiles.idx.outeidx[k]
        /\ tiles.idx.outeidx[NumTiles] = width

\* C2: for every dimension >= 1024 every tile's input window stays inside the
\* source and its crop is a non-empty sub-range of the window; the last
\* tile's crop_start is never negative.
ClaimC2_WindowsAndCropsInBounds ==
    (pc = "returned" /\ width >= TileSize) =>
        \A k \in 1..NumTiles :
            /\ 0 <= tiles.idx.insidx[k]
            /\ tiles.idx.ineidx[k] = tiles.idx.insidx[k] + TileSize
            /\ tiles.idx.ineidx[k] <= width
            /\ 0 <= tiles.idx.cpsidx[k]
            /\ tiles.idx.cpsidx[k] < tiles.idx.cpeidx[k]
            /\ tiles.idx.cpeidx[k] <= TileSize

\* C4: for every dimension >= 1024 the partitioner returns exactly
\* ceil(dimension / 1024) tiles (2048 gives the outputs [0,1024) and
\* [1024,2048)), and the crop width of the first and interior tiles is
\* floor(dimension / n) rounded up to the next even number.
ClaimC4_TileCountAndCropWidth ==
    (pc = "returned" /\ width >= TileSize) =>
        LET n == CeilDiv(width, TileSize)
            q == width \div n
            even == IF q % 2 = 0 THEN q ELSE q + 1
        IN  /\ NumTiles = n
            /\ (width = 2 * TileSize =>
                    /\ tiles.idx.outsidx = <<0, TileSize>>
                    /\ tiles.idx.outeidx = <<TileSize, 2 * TileSize>>)
            /\ \A k \in 1..(NumTiles - 1) :
                    tiles.idx.cpeidx[k] - tiles.idx.cpsidx[k] = even

(***************************************************************************)
(* Evaluator.predict_samples_large with a per-tile predictor that is the   *)
(* identity function.  The canvas is followed at one cell, probe = <<r, c>>.*)
(***************************************************************************)
SampleDims == {1, 1000, 1023, 1024, 1025, 2048, 2050, 3073, 4091, 5114}

\* the probed positions of an axis of length n
Probes(n) == {p \in 0..(n - 1) : p % ProbeStride = 0 \/ p = n - 1}

InitStitch ==
    /\ pc = "stitch_call"
    /\ PartIdle /\ TtaIdle /\ EvalIdle
    /\ dsize \in SampleDims \X SampleDims
    /\ probe \in Probes(dsize[1]) \X Probes(dsize[2])
    /\ xidx = Unset /\ yidx = Unset
    /\ ti = 0 /\ tj = 0
    /\ cell = Zero /\ cell_writes = 0
    /\ model_calls = 0 /\ predicted = "unset"

\* line 323: the six lists for dsize[2]; unpacking None raises TypeError
StitchIndexX ==
    /\ pc = "stitch_call"
    /\ xidx' = index_in_copy_out(dsize[1])
    /\ pc' = IF xidx' = None THEN "error" ELSE "stitch_y"
    /\ UNCHANGED <<partVars, ttaVars, evalVars, dsize, probe, yidx, ti, tj, cell, cell_writes,
                   model_calls, predicted>>

\* line 324: the six lists for dsize[3], then np.zeros and the loop heads
StitchIndexY ==
    /\ pc = "stitch_y"
    /\ yidx' = index_in_copy_out(dsize[2])
    /\ IF yidx' = None
         THEN pc' = "error" /\ UNCHANGED <<ti, tj>>
         ELSE pc' = "stitch_loop" /\ ti' = 1 /\ tj' = 1
    /\ UNCHANGED <<partVars, ttaVars, evalVars, dsize, probe, xidx, cell, cell_writes,
                   model_calls, predicted>>

\* One axis of one tile: the window read from the source, the crop taken from
\* the identity prediction, the range assigned in the canvas.
\*   ok  : numpy accepts the assignment on this axis (equal lengths, or a
\*         crop of length 1 that is broadcast)
\*   src : the source index copied to canvas index p
AxisCopy(idx, k, n) ==
    LET win  == PySlice(idx.insidx[k], idx.ineidx[k], n)
        crop == PySlice(idx.cpsidx[k], idx.cpeidx[k], SliceLen(win))
        out  == PySlice(idx.outsidx[k], idx.outeidx[k], n)
    IN  [ok   |-> SliceLen(crop) = SliceLen(out) \/ SliceLen(crop) = 1,
         lo   |-> out[1],
         hi   |-> out[2],
         base |-> win[1] + crop[1],
         step |-> IF SliceLen(crop) = SliceLen(out) THEN 1 ELSE 0]

AxisSrc(a, p) == a.base + a.step * (p - a.lo)

\* lines 343-347: one iteration of the inner loop
StitchTile ==
    /\ pc = "stitch_loop"
    /\ ti <= Len(xidx.idx.insidx)
    /\ LET ax == AxisCopy(xidx.idx, ti, dsize[1])
           ay == AxisCopy(yidx.idx, tj, dsize[2])
           hit == /\ ax.lo <= probe[1] /\ probe[1] < ax.hi
                  /\ ay.lo <= probe[2] /\ probe[2] < ay.hi
       IN  /\ model_calls' = model_calls + 1
           /\ IF ax.ok /\ ay.ok
                THEN /\ cell' = IF hit THEN <<AxisSrc(ax, probe[1]), AxisSrc(ay, probe[2])>>
                                ELSE cell
                     /\ cell_writes' = IF hit THEN cell_writes + 1 ELSE cell_writes
                     /\ IF tj < Len(yidx.idx.insidx)
                          THEN tj' = tj + 1 /\ ti' = ti
                          ELSE tj' = 1 /\ ti' = ti + 1
                     /\ pc' = pc
                ELSE \* ValueError: could not broadcast input array
                     /\ pc' = "error"
                     /\ UNCHANGED <<cell, cell_writes, ti, tj>>
    /\ UNCHANGED <<partVars, ttaVars, evalVars, dsize, probe, xidx, yidx, predicted>>

\* line 345: the model raises on this tile; nothing catches the error
StitchTileRaises ==
    /\ pc = "stitch_loop"
    /\ ti <= Len(xidx.idx.insidx)
    /\ model_calls' = model_calls + 1
    /\ model_raised' = TRUE
    /\ pc' = "stitch_raised"
    /\ UNCHANGED <<partVars, ttaVars, foldVars, dsize, probe, xidx, yidx, ti, tj, cell,
                   cell_writes, predicted>>

\* line 349
StitchReturn ==
    /\ pc = "stitch_loop"
    /\ ti > Len(xidx.idx.insidx)
    /\ predicted' = "canvas"
    /\ pc' = "stitch_done"
    /\ UNCHANGED <<partVars, ttaVars, evalVars, dsize, probe, xidx, yidx, ti, tj, cell, cell_writes,
                   model_calls>>

NextStitch == StitchIndexX \/ StitchIndexY \/ StitchTile \/ StitchTileRaises
              \/ StitchReturn

SpecStitch == InitStitch /\ [][NextStitch]_vars

\* C3: with the identity predictor, for every height and width >= 1024, after
\* predict_samples_large canvas cell (r, c) holds the value of source cell
\* (r, c).
ClaimC3_IdentityRoundTrip ==
    (pc = "stitch_done" /\ dsize[1] >= TileSize /\ dsize[2] >= TileSize) =>
        cell = probe

\* C5: when a dimension is below 1024 the partitioner returns no tile lists,
\* and the stitcher on such a batch ends in an error without a model call and
\* without returning a canvas.
C5_PartitionerRejectsAndStitcherFails ==
    /\ (xidx # Unset /\ dsize[1] < TileSize) => xidx = None
    /\ (yidx # Unset /\ dsize[2] < TileSize) => yidx = None
    /\ (dsize[1] < TileSize \/ dsize[2] < TileSize) =>
          /\ model_calls = 0
          /\ predicted = "unset"
          /\ pc \in {"stitch_call", "stitch_y", "error"}
          /\ (pc = "stitch_y" => dsize[1] >= TileSize)
          /\ (pc = "stitch_call" => xidx = Unset)

\* C5 witness: the height is large enough, the width is not, and the call
\* has failed on the second partitioner result
C5_Witness ==
    /\ pc = "error"
    /\ dsize[1] >= TileSize /\ dsize[2] < TileSize
    /\ xidx # None /\ yidx = None
    /\ model_calls = 0

(***************************************************************************)
(* predict, to_numpy, flip_tensor_lr, flip_tensor_ud                       *)
(* A tensor is one image plane: a sequence of rows of integers.  Batch     *)
(* cells are 0 or 1; raw model outputs are logits in quarter units; the    *)
(* values of to_numpy are probabilities in per-mille.                      *)
(***************************************************************************)
FLIP_NONE == 0
FLIP_LR == 1
FLIP_FULL == 2

Tensors(V) == [1..TensorRows -> [1..TensorCols -> V]]

\* batch.index_select(3, reversed(range(columns)))
flip_tensor_lr(t) ==
    [r \in 1..Len(t) |-> [c \in 1..Len(t[r]) |-> t[r][Len(t[r]) + 1 - c]]]

\* batch.index_select(2, reversed(range(rows)))
flip_tensor_ud(t) ==
    [r \in 1..Len(t) |-> t[Len(t) + 1 - r]]

\* F.sigmoid on a logit of x/4, in per-mille: round(1000 / (1 + exp(-x/4)))
SigmoidTable == <<119, 148, 182, 223, 269, 321, 378, 438, 500,
                  562, 622, 679, 731, 777, 818, 852, 881>>

Sigmoid(x) == SigmoidTable[x + 9]

\* the logits handed back as they are, F.sigmoid left out
to_numpy_raw(t) == t

\* F.sigmoid(batch).data.cpu().numpy()
to_numpy(t) == [r \in 1..Len(t) |-> [c \in 1..Len(t[r]) |-> Sigmoid(t[r][c])]]

\* The model is an opaque callable.  Four are enumerated:
\*   pointwise    : the output at a position depends on the input there only
\*   constant     : the same logit everywhere
\*   constant_low : another logit everywhere
\*   positional   : the output depends on the position and on the top-left input
ModelKinds == {"pointwise", "constant", "constant_low", "positional"}

ConstLogit == 4
ConstLogitLow == -8

Model(kind, t) ==
    [r \in 1..Len(t) |-> [c \in 1..Len(t[r]) |->
        CASE kind = "pointwise"  -> IF t[r][c] = 1 THEN 8 ELSE -4
          [] kind = "constant"   -> ConstLogit
          [] kind = "constant_low" -> ConstLogitLow
          [] kind = "positional" -> 4 * t[1][1] + (IF c = 1 THEN 4 ELSE 0)
                                      - (IF r = 1 THEN 8 ELSE 0)]]

RECURSIVE SumAt(_, _, _, _)
SumAt(ms, k, r, c) == IF k = 0 THEN 0 ELSE ms[k][r][c] + SumAt(ms, k - 1, r, c)

\* torch.mean(torch.stack(masks, 0), 0); the logits enumerated are multiples
\* of 4 and there are 1, 2 or 4 of them, so the quotient is exact
Mean(ms) ==
    [r \in 1..Len(ms[1]) |-> [c \in 1..Len(ms[1][r]) |->
        SumAt(ms, Len(ms), r, c) \div Len(ms)]]

\* the horizontally mirrored input evaluated, its output not mirrored back
Pred2_not_unflipped(kind, b) == Model(kind, flip_tensor_lr(b))

\* line 53
Pred2(kind, b) == flip_tensor_lr(Model(kind, flip_tensor_lr(b)))

\* line 56
Pred3(kind, b) == flip_tensor_ud(Model(kind, flip_tensor_ud(b)))

\* line 57
Pred4(kind, b) ==
    flip_tensor_ud(flip_tensor_lr(Model(kind, flip_tensor_ud(flip_tensor_lr(b)))))

InitTta ==
    /\ pc = "tta_call"
    /\ PartIdle /\ StitchIdle /\ EvalIdle
    /\ model_kind \in ModelKinds
    /\ batch \in Tensors({0, 1})
    /\ flips \in {FLIP_NONE, FLIP_LR, FLIP_FULL}
    /\ masks = <<>> /\ new_mask = <<>> /\ result = <<>>

\* line 51
TtaPred1 ==
    /\ pc = "tta_call"
    /\ masks' = <<Model(model_kind, batch)>>
    /\ pc' = IF flips > FLIP_NONE THEN "tta_lr" ELSE "tta_plain"
    /\ UNCHANGED <<partVars, stitchVars, evalVars, model_kind, batch, flips, new_mask, result>>

\* lines 53-54
TtaPred2 ==
    /\ pc = "tta_lr"
    /\ masks' = Append(masks, Pred2(model_kind, batch))
    /\ pc' = IF flips > FLIP_LR THEN "tta_full" ELSE "tta_mean"
    /\ UNCHANGED <<partVars, stitchVars, evalVars, model_kind, batch, flips, new_mask, result>>

\* lines 56-58
TtaPred34 ==
    /\ pc = "tta_full"
    /\ masks' = masks \o <<Pred3(model_kind, batch), Pred4(model_kind, batch)>>
    /\ pc' = "tta_mean"
    /\ UNCHANGED <<partVars, stitchVars, evalVars, model_kind, batch, flips, new_mask, result>>

\* line 59
TtaMean ==
    /\ pc = "tta_mean"
    /\ new_mask' = Mean(masks)
    /\ pc' = "tta_squash"
    /\ UNCHANGED <<partVars, stitchVars, evalVars, model_kind, batch, flips, masks, result>>

\* line 60
TtaReturnMean ==
    /\ pc = "tta_squash"
    /\ result' = to_numpy(new_mask)
    /\ pc' = "tta_done"
    /\ UNCHANGED <<partVars, stitchVars, evalVars, model_kind, batch, flips, masks, new_mask>>

\* line 65
TtaReturnPlain ==
    /\ pc = "tta_plain"
    /\ result' = to_numpy(masks[1])
    /\ pc' = "tta_done"
    /\ UNCHANGED <<partVars, stitchVars, evalVars, model_kind, batch, flips, masks, new_mask>>

NextTta == TtaPred1 \/ TtaPred2 \/ TtaPred34 \/ TtaMean \/ TtaReturnMean \/ TtaReturnPlain

SpecTta == InitTta /\ [][NextTta]_vars

RECURSIVE SumSigmoidAt(_, _, _, _)
SumSigmoidAt(ms, k, r, c) ==
    IF k = 0 THEN 0 ELSE Sigmoid(ms[k][r][c]) + SumSigmoidAt(ms, k - 1, r, c)

\* C6: with a flip variant above NONE the value returned is the arithmetic
\* mean of the squashed outputs of the variants: in every cell,
\* result * (number of variants) = sum of sigmoid(raw output of the variant).
ClaimC6_MeanOfProbabilities ==
    (pc = "tta_done" /\ flips > FLIP_NONE) =>
        \A r \in 1..TensorRows : \A c \in 1..TensorCols :
            result[r][c] * Len(masks) = SumSigmoidAt(masks, Len(masks), r, c)

\* C7: the predictor averages exactly 1, 2 or 4 model outputs with equal
\* weight, the first computed on the unmodified batch, and for a model that
\* is the identity on positions every term equals the first cell for cell.
C7_VariantsCountedAndUnflipped ==
    /\ (pc \in {"tta_plain", "tta_mean", "tta_squash", "tta_done"}) =>
          /\ Len(masks) = (CASE flips = FLIP_NONE -> 1
                             [] flips = FLIP_LR   -> 2
                             [] flips = FLIP_FULL -> 4)
          /\ masks[1] = Model(model_kind, batch)
          /\ model_kind = "pointwise" => \A k \in 1..Len(masks) : masks[k] = masks[1]
    /\ (pc \in {"tta_squash", "tta_done"} /\ flips > FLIP_NONE) =>
          \A r \in 1..TensorRows : \A c \in 1..TensorCols :
              new_mask[r][c] * Len(masks) = SumAt(masks, Len(masks), r, c)

\* C7 witness: four variants of a batch that no flip leaves unchanged have
\* been averaged for the pointwise model
C7_Witness ==
    /\ pc = "tta_done" /\ flips = FLIP_FULL /\ model_kind = "pointwise"
    /\ Len(masks) = 4
    /\ flip_tensor_ud(batch) # batch
    /\ flip_tensor_lr(batch) # batch
    /\ flip_tensor_ud(flip_tensor_lr(batch)) # batch

(***************************************************************************)
(* Evaluator.predict, Evaluator.on_image_constructed, Evaluator.cut_border *)
(* An image is one row of cells.  A prediction cell is a                   *)
(* probability in per-mille, a mask cell is 0 or 255.  Every loader yields *)
(* at least one batch, and a batch holds one image.                        *)
(***************************************************************************)
\* the border argument of the constructor, at the scale of the rows below
Border == 1

Names == {"A", "B"}

\* The batches a loader can yield: the image's prediction (what
\* predict_samples returns for it) and its 'mask' entry, if any.
Samples ==
    { [pred |-> <<200, 900, 900, 200>>, mask |-> NoRaster],
      [pred |-> <<200, 900, 200, 200>>, mask |-> Raster(<<0, 255, 255, 0>>)],
      [pred |-> <<200, 200, 200, 200>>, mask |-> Raster(<<0, 0, 0, 0>>)],
      [pred |-> <<900, 200, 200, 200>>, mask |-> Raster(<<0, 0, 0, 255>>)] }

\* the test "fold in skip_folds" never taken
Skipped_never(sf, f) == FALSE

\* lines 170-172
Skipped(sf, f) == sf.given /\ f \in sf.set

\* lines 219-221: image[border:-border]
cut_border(px) ==
    IF Border = 0 THEN px
    ELSE LET sl == PySlice(Border, -Border, Len(px))
         IN  SubSeq(px, sl[1] + 1, sl[2])

\* 1 - scipy.spatial.distance.dice(pred > .5, mask >= 1), as <<numerator,
\* denominator>> of 2*ctt / (2*ctt + ctf + cft)
DiceScore(pred, mask) ==
    LET I   == 1..Len(pred)
        ctt == Cardinality({i \in I : pred[i] > 500 /\ mask[i] >= 1})
        dif == Cardinality({i \in I : (pred[i] > 500) # (mask[i] >= 1)})
    IN  <<2 * ctt, 2 * ctt + dif>>

\* The attributes on_image_constructed reads and writes, as a record
Acc == [full_pred |-> full_pred, full_mask |-> full_mask, dice |-> dice,
        dice_fold |-> dice_fold, finalized |-> finalized, saved |-> saved]

\* the image handed to save only when it has a mask: the function left as
\* soon as full_mask is None
on_image_constructed_mask_required(a, f, name) ==
    LET pred   == cut_border(a.full_pred.px)
        mask   == cut_border(a.full_mask.px)
        anyPos == \/ \E i \in 1..Len(pred) : pred[i] > 500
                  \/ \E i \in 1..Len(mask) : mask[i] >= 1
        scored == a.full_mask.some /\ anyPos
    IN  [full_pred |-> Raster(pred),
         full_mask |-> IF a.full_mask.some THEN Raster(mask) ELSE a.full_mask,
         dice      |-> IF scored THEN Append(a.dice, DiceScore(pred, mask)) ELSE a.dice,
         dice_fold |-> IF scored THEN Append(a.dice_fold, f) ELSE a.dice_fold,
         finalized |-> Append(a.finalized, [fold |-> f, name |-> name]),
         saved     |-> IF scored /\ save_images
                         THEN Append(a.saved, [fold |-> f, name |-> name])
                         ELSE a.saved]

\* lines 223-244, called for image name in fold f (config.dbg is off)
on_image_constructed(a, f, name) ==
    LET pred   == cut_border(a.full_pred.px)
        mask   == cut_border(a.full_mask.px)
        anyPos == \/ \E i \in 1..Len(pred) : pred[i] > 500
                  \/ \E i \in 1..Len(mask) : mask[i] >= 1
        scored == a.full_mask.some /\ anyPos
        early  == a.full_mask.some /\ ~anyPos           \* line 238
    IN  [full_pred |-> Raster(pred),
         full_mask |-> IF a.full_mask.some THEN Raster(mask) ELSE a.full_mask,
         dice      |-> IF scored THEN Append(a.dice, DiceScore(pred, mask)) ELSE a.dice,
         dice_fold |-> IF scored THEN Append(a.dice_fold, f) ELSE a.dice_fold,
         finalized |-> Append(a.finalized, [fold |-> f, name |-> name]),
         saved     |-> IF ~early /\ save_images
                         THEN Append(a.saved, [fold |-> f, name |-> name])
                         ELSE a.saved]

Max(x, y) == IF x >= y THEN x ELSE y

\* process_data of the evaluators that assemble one image from its batches:
\* a new image name finalizes the image before it and starts a zeroed canvas;
\* the batch's prediction is then written into the canvas.  gt is the masks
\* that get_data hands over: the mask only if need_dice (show_mask is off).
process_data(a, f, data_name, data, nd) ==
    LET gt == IF nd THEN data.mask ELSE NoRaster
        a1 == IF data_name # prev_name /\ prev_name # "None"
                THEN on_image_constructed(a, f, prev_name) ELSE a
        a2 == IF data_name # prev_name
                THEN [a1 EXCEPT !.full_pred = Raster([i \in 1..Len(data.pred) |-> 0]),
                                !.full_mask = gt]
                ELSE a1
    IN  [a2 EXCEPT !.full_pred =
            Raster([i \in 1..Len(data.pred) |-> Max(a2.full_pred.px[i], data.pred[i])])]

InitEval ==
    /\ pc = "eval_idle"
    /\ PartIdle /\ StitchIdle /\ TtaIdle
    /\ EvalConstructed
    /\ skip_folds \in {NoSkip} \cup {SkipSet(S) : S \in SUBSET (0..(NumFolds - 1))}
    /\ save_images \in BOOLEAN
    /\ fold = 0 /\ fold_batches = 0 /\ all_batches = 0
    /\ datasets = <<>> /\ models = <<>> /\ processed = <<>>
    /\ finalized = <<>> /\ saved = <<>> /\ printed = <<>>
    /\ batch_log = <<>> /\ model_raised = FALSE

\* the owner of the evaluator asks for scoring before the run
EnableDice ==
    /\ pc = "eval_idle"
    /\ ~need_dice
    /\ need_dice' = TRUE
    /\ UNCHANGED <<pc, partVars, stitchVars, ttaVars, skip_folds, save_images, fold,
                   fold_batches, all_batches, prev_name, full_pred, full_mask, dice,
                   dice_fold, datasets, models, processed, finalized, saved, printed, batch_log, model_raised>>

\* line 167: the call, up to the head of the loop over the folds
PredictCall ==
    /\ pc = "eval_idle"
    /\ pc' = "fold_head"
    /\ fold' = 0
    /\ UNCHANGED <<partVars, stitchVars, ttaVars, skip_folds, save_images,
                   fold_batches, all_batches, prev_name, full_pred, full_mask, need_dice,
                   dice, dice_fold, datasets, models, processed, finalized, saved, printed, batch_log, model_raised>>

\* lines 168-172: a fold of skip_folds, "continue"
FoldSkip ==
    /\ pc = "fold_head"
    /\ fold < NumFolds
    /\ Skipped(skip_folds, fold)
    /\ fold' = fold + 1
    /\ UNCHANGED <<pc, partVars, stitchVars, ttaVars, skip_folds, save_images,
                   fold_batches, all_batches, prev_name, full_pred, full_mask, need_dice,
                   dice, dice_fold, datasets, models, processed, finalized, saved, printed, batch_log, model_raised>>

\* lines 168-179: any other fold, up to the head of the loop over its batches
FoldOpen ==
    /\ pc = "fold_head"
    /\ fold < NumFolds
    /\ ~Skipped(skip_folds, fold)
    /\ prev_name' = "None"
    /\ datasets' = Append(datasets, fold)
    /\ models' = Append(models, fold)
    /\ fold_batches' = 0
    /\ pc' = "batches"
    /\ UNCHANGED <<partVars, stitchVars, ttaVars, skip_folds, save_images, fold,
                   all_batches, full_pred, full_mask, need_dice, dice, dice_fold,
                   processed, finalized, saved, printed, batch_log, model_raised>>

\* lines 180-189: one batch of the fold
FoldBatch ==
    /\ pc = "batches"
    /\ fold_batches = 0 \/ all_batches < MaxBatches
    /\ \E data_name \in Names : \E data \in Samples :
         LET nd == IF data.mask.some THEN need_dice ELSE FALSE    \* lines 182-183
             a  == process_data(Acc, fold, data_name, data, nd)   \* lines 185-186
         IN  /\ need_dice' = nd
             /\ prev_name' = data_name
             /\ full_pred' = a.full_pred
             /\ full_mask' = a.full_mask
             /\ dice' = a.dice
             /\ dice_fold' = a.dice_fold
             /\ finalized' = a.finalized
             /\ saved' = a.saved
             /\ batch_log' = Append(batch_log, [name |-> data_name,
                                                 mask |-> data.mask.some])
    /\ processed' = Append(processed, fold)
    /\ fold_batches' = fold_batches + 1
    /\ all_batches' = all_batches + 1
    /\ UNCHANGED <<pc, partVars, stitchVars, ttaVars, skip_folds, save_images, fold,
                   datasets, models, printed, model_raised>>

\* the error of the model caught and the batch given up: the loop goes on
FoldBatchRaises_swallowed ==
    /\ pc = "batches"
    /\ fold_batches = 0 \/ all_batches < MaxBatches
    /\ \E data \in Samples :
         need_dice' = IF data.mask.some THEN need_dice ELSE FALSE
    /\ model_raised' = TRUE
    /\ fold_batches' = fold_batches + 1
    /\ all_batches' = all_batches + 1
    /\ UNCHANGED <<pc, partVars, stitchVars, ttaVars, skip_folds, save_images, fold,
                   prev_name, full_pred, full_mask, dice, dice_fold, datasets, models,
                   processed, finalized, saved, printed, batch_log>>

\* lines 181-185: the model raises in predict_samples; nothing catches the
\* error, which leaves Evaluator.predict
FoldBatchRaises ==
    /\ pc = "batches"
    /\ fold_batches = 0 \/ all_batches < MaxBatches
    /\ \E data \in Samples :
         need_dice' = IF data.mask.some THEN need_dice ELSE FALSE   \* lines 182-183
    /\ model_raised' = TRUE
    /\ pc' = "aborted"
    /\ UNCHANGED <<partVars, stitchVars, ttaVars, skip_folds, save_images, fold,
                   fold_batches, all_batches, prev_name, full_pred, full_mask, dice,
                   dice_fold, datasets, models, processed, finalized, saved, printed,
                   batch_log>>

\* the loader is exhausted and the image being assembled is left as it is:
\* line 190 left out
FoldEnd_without_finalize ==
    /\ pc = "batches"
    /\ fold_batches >= 1
    /\ printed' = IF need_dice
                    THEN Append(printed, [fold |-> fold, scores |-> dice,
                                          folds |-> dice_fold])
                    ELSE printed
    /\ fold' = fold + 1
    /\ pc' = "fold_head"
    /\ UNCHANGED <<partVars, stitchVars, ttaVars, skip_folds, save_images,
                   fold_batches, all_batches, prev_name, full_pred, full_mask,
                   need_dice, dice, dice_fold, datasets, models, processed,
                   finalized, saved, batch_log, model_raised>>

\* lines 190-192: the loader is exhausted
FoldEnd ==
    /\ pc = "batches"
    /\ fold_batches >= 1
    /\ LET a == on_image_constructed(Acc, fold, prev_name)
       IN  /\ full_pred' = a.full_pred
           /\ full_mask' = a.full_mask
           /\ dice' = a.dice
           /\ dice_fold' = a.dice_fold
           /\ finalized' = a.finalized
           /\ saved' = a.saved
           /\ printed' = IF need_dice
                           THEN Append(printed, [fold |-> fold, scores |-> a.dice,
                                                 folds |-> a.dice_fold])
                           ELSE printed
    /\ fold' = fold + 1
    /\ pc' = "fold_head"
    /\ UNCHANGED <<partVars, stitchVars, ttaVars, skip_folds, save_images,
                   fold_batches, all_batches, prev_name, need_dice, datasets, models,
                   processed, batch_log, model_raised>>

\* the loop over the folds is exhausted
PredictReturn ==
    /\ pc = "fold_head"
    /\ fold = NumFolds
    /\ pc' = "eval_done"
    /\ UNCHANGED <<partVars, stitchVars, ttaVars, evalVars>>

NextEval == EnableDice \/ PredictCall \/ FoldSkip \/ FoldOpen \/ FoldBatch
            \/ FoldBatchRaises \/ FoldEnd \/ PredictReturn

SpecEval == InitEval /\ [][NextEval]_vars

\* C8: every finalized image is emitted to the save sink when saving is
\* enabled, the degenerate all-negative case included: each call of
\* on_image_constructed is followed by one call of save for the same image.
ClaimC8_EveryFinalizedImageSaved ==
    save_images => saved = finalized

\* C9: the mean printed when a fold's batch stream is consumed is taken over
\* scores appended during that fold only.
ClaimC9_MeanOverThisFoldOnly ==
    \A k \in 1..Len(printed) :
        \A j \in 1..Len(printed[k].folds) : printed[k].folds[j] = printed[k].fold

\* the folds below n that are not in skip_folds, in increasing order
RECURSIVE FoldsToRun(_)
FoldsToRun(n) ==
    IF n = 0 THEN <<>>
    ELSE IF skip_folds.given /\ (n - 1) \in skip_folds.set
           THEN FoldsToRun(n - 1)
           ELSE Append(FoldsToRun(n - 1), n - 1)

InSkipFolds(f) == skip_folds.given /\ f \in skip_folds.set

\* the folds whose turn has come
FoldsReached == IF pc \in {"batches", "aborted"} THEN fold + 1 ELSE fold

C10_NothingForSkippedFolds ==
    /\ models = FoldsToRun(FoldsReached)
    /\ datasets = FoldsToRun(FoldsReached)
    /\ \A k \in 1..Len(processed) : ~InSkipFolds(processed[k])
    /\ \A k \in 1..Len(finalized) : ~InSkipFolds(finalized[k].fold)
    /\ \A k \in 1..Len(saved) : ~InSkipFolds(saved[k].fold)
    /\ \A k \in 1..Len(printed) : ~InSkipFolds(printed[k].fold)
    /\ \A k \in 1..(Len(processed) - 1) : processed[k] <= processed[k + 1]
    /\ pc = "eval_done" =>
          /\ models = FoldsToRun(NumFolds)
          /\ \A f \in 0..(NumFolds - 1) :
                ~InSkipFolds(f) =>
                    /\ \E k \in 1..Len(processed) : processed[k] = f
                    /\ \E k \in 1..Len(finalized) : finalized[k].fold = f

C10_SkipStepChangesNothing ==
    (pc = "fold_head" /\ fold < NumFolds /\ InSkipFolds(fold)) =>
        /\ fold' = fold + 1
        /\ pc' = "fold_head"
        /\ UNCHANGED <<dice, dice_fold, prev_name, full_pred, full_mask, need_dice,
                       datasets, models, processed, finalized, saved, printed, batch_log, model_raised>>

\* C10: for a fold of skip_folds Evaluator.predict loads no model, builds no
\* dataset or loader, processes no batch, finalizes nothing and leaves the
\* Dice list and the per-image state as they are; the other folds are
\* processed in increasing order, all of them once the call has returned.
C10_SkippedFoldsBypassed ==
    [](C10_NothingForSkippedFolds) /\ [][C10_SkipStepChangesNothing]_vars

\* C10 witness: three folds, skip_folds = {1}: the call has returned after
\* processing folds 0 and 2, with scores collected
C10_Witness ==
    /\ pc = "eval_done"
    /\ skip_folds = SkipSet({1})
    /\ models[1] = 0 /\ models[2] = 2
    /\ processed[1] = 0 /\ processed[2] = 2
    /\ Len(dice) >= 2

\* the image names of the first k batches that belong to fold f, in order
RECURSIVE StreamOf(_, _)
StreamOf(f, k) ==
    IF k = 0 THEN <<>>
    ELSE IF processed[k] = f
           THEN Append(StreamOf(f, k - 1), batch_log[k].name)
           ELSE StreamOf(f, k - 1)

\* the image names of the first k finalizations that belong to fold f
RECURSIVE FinalizedIn(_, _)
FinalizedIn(f, k) ==
    IF k = 0 THEN <<>>
    ELSE IF finalized[k].fold = f
           THEN Append(FinalizedIn(f, k - 1), finalized[k].name)
           ELSE FinalizedIn(f, k - 1)

\* a sequence with every run of equal neighbours collapsed to one element
RECURSIVE Runs(_)
Runs(s) ==
    IF Len(s) <= 1 THEN s
    ELSE LET r == Runs(SubSeq(s, 1, Len(s) - 1))
         IN  IF s[Len(s)] = s[Len(s) - 1] THEN r ELSE Append(r, s[Len(s)])

\* the items of each identity are contiguous
Contiguous(s) ==
    \A i \in 1..Len(Runs(s)) : \A j \in 1..Len(Runs(s)) :
        i # j => Runs(s)[i] # Runs(s)[j]

Occurrences(s, x) == Cardinality({i \in 1..Len(s) : s[i] = x})

\* C11: within one fold, when the items of each image identity are
\* contiguous, every identity is finalized exactly once: every identity but
\* the last when the first item of the next one arrives, the last one when
\* the stream ends.
C11_EachIdentityFinalizedOnce ==
    \A f \in 0..(NumFolds - 1) :
        LET stream == StreamOf(f, Len(processed))
            fin    == FinalizedIn(f, Len(finalized))
        IN  Contiguous(stream) =>
              IF f < fold
                THEN /\ fin = Runs(stream)
                     /\ \A n \in Names :
                          Occurrences(fin, n) = IF Occurrences(stream, n) > 0 THEN 1 ELSE 0
                ELSE /\ fin = SubSeq(Runs(stream), 1, Len(Runs(stream)) - 1)
                     /\ \A n \in Names : Occurrences(fin, n) <= 1

\* C11 witness: the stream A, A, B, B of fold 0 has been consumed; A was
\* finalized once, then B once
C11_Witness ==
    /\ fold >= 1
    /\ StreamOf(0, Len(processed)) = <<"A", "A", "B", "B">>
    /\ FinalizedIn(0, Len(finalized)) = <<"A", "B">>

\* the batches of the image being assembled: the longest tail of the batches
\* of the current fold that carry the name of the last one
CurrentRun ==
    {k \in 1..Len(batch_log) :
        \A j \in k..Len(batch_log) :
            /\ batch_log[j].name = batch_log[Len(batch_log)].name
            /\ processed[j] = fold}

RunStart == CHOOSE k \in CurrentRun : \A j \in CurrentRun : k <= j

SomeBatchWithoutMask == \E k \in 1..Len(batch_log) : ~batch_log[k].mask

\* scoring is off from a batch without a mask on, and an image that starts
\* with such a batch holds no mask
C12_ScoringDisabled ==
    /\ SomeBatchWithoutMask => ~need_dice
    /\ (pc = "batches" /\ CurrentRun # {} /\ ~batch_log[RunStart].mask) =>
          ~full_mask.some

\* a batch without a mask is processed like any other; finalizing an image
\* that holds no mask appends no score and hands the image to save; no mean
\* is printed once a batch had no mask
C12_StepWithoutMask ==
    /\ (Len(batch_log') = Len(batch_log) + 1 /\ ~batch_log'[Len(batch_log')].mask) =>
          /\ pc' = "batches"
          /\ ~model_raised'
          /\ processed' = Append(processed, fold)
    /\ (Len(finalized') = Len(finalized) + 1 /\ ~full_mask.some) =>
          /\ dice' = dice
          /\ printed' = printed
          /\ finalized' = Append(finalized, [fold |-> fold, name |-> prev_name])
          /\ save_images => saved' = Append(saved, [fold |-> fold, name |-> prev_name])
    /\ SomeBatchWithoutMask => printed' = printed

InitInference == InitEval \/ InitStitch

NextInference == NextEval \/ NextStitch

SpecInference == InitInference /\ [][NextInference]_vars

\* once the model has raised the run is over, and no canvas was returned
C13_StoppedAfterRaise ==
    model_raised =>
        /\ pc \in {"aborted", "stitch_raised"}
        /\ pc = "stitch_raised" => predicted = "unset"

\* no step is taken after the model has raised, and the step in which it
\* raises processes, scores, emits and returns nothing
C13_RaiseStep ==
    /\ ~model_raised
    /\ model_raised' =>
          /\ UNCHANGED <<fold, processed, batch_log, models, datasets>>
          /\ UNCHANGED <<dice, dice_fold, finalized, saved, printed>>
          /\ UNCHANGED <<full_pred, full_mask, prev_name>>
          /\ UNCHANGED <<ti, tj, cell, cell_writes, predicted>>

\* C13: if the model raises during an inference call the error propagates
\* and the run stops: no later tile, batch or fold is processed, there is no
\* retry, and the image being assembled is neither scored nor emitted.
C13_InferenceFailureAborts ==
    [](C13_StoppedAfterRaise) /\ [][C13_RaiseStep]_vars

\* C13 witness: the model raised on a later batch of an image of the second
\* fold; that image is in no finalization and the run is over
C13_Witness ==
    /\ pc = "aborted" /\ model_raised
    /\ fold = 1 /\ fold_batches >= 1
    /\ models = <<0, 1>>
    /\ \A k \in 1..Len(finalized) : finalized[k].fold = 0

\* the constant C of a constant model, in quarter logits
ConstOf(kind) == IF kind = "constant" THEN ConstLogit ELSE ConstLogitLow

IsConstantModel == model_kind \in {"constant", "constant_low"}

\* C14 as stated: on a model whose output is the constant C the predictor
\* returns C unchanged with FLIP_NONE and the same C with FLIP_FULL
\* (result is in per-mille, C in quarters: result / 1000 = C / 4).
ClaimC14_ConstantReturnedUnchanged ==
    (pc = "tta_done" /\ IsConstantModel /\ flips \in {FLIP_NONE, FLIP_FULL}) =>
        \A r \in 1..TensorRows : \A c \in 1..TensorCols :
            result[r][c] * 4 = ConstOf(model_kind) * 1000

\* C14 amended: on a model whose raw output is the constant C the predictor
\* returns sigmoid(C) in every cell with FLIP_NONE, and the same sigmoid(C)
\* with FLIP_FULL: averaging identical values changes nothing.
C14_ConstantSquashedOnce ==
    (pc = "tta_done" /\ IsConstantModel /\ flips \in {FLIP_NONE, FLIP_FULL}) =>
        /\ \A k \in 1..Len(masks) : \A r \in 1..TensorRows : \A c \in 1..TensorCols :
              masks[k][r][c] = ConstOf(model_kind)
        /\ \A r \in 1..TensorRows : \A c \in 1..TensorCols :
              result[r][c] = Sigmoid(ConstOf(model_kind))

\* C14 witness: four outputs of a constant model averaged for a batch that
\* is not uniform
C14_Witness ==
    /\ pc = "tta_done" /\ model_kind = "constant" /\ flips = FLIP_FULL
    /\ Len(masks) = 4
    /\ batch[1][1] # batch[TensorRows][TensorCols]
    /\ result[1][1] = Sigmoid(ConstLogit)

(***************************************************************************)
(* Evaluator.predict_samples_2048x2048, with the identity predictor        *)
(***************************************************************************)
FixedSize == 2048

\* lines 257-262
FixedGrid ==
    [insidx  |-> <<0, 512, 1024>>,
     ineidx  |-> <<1024, 1536, 2048>>,
     cpsidx  |-> <<0, 288, 224>>,
     cpeidx  |-> <<800, 736, 1024>>,
     outsidx |-> <<0, 800, 1248>>,
     outeidx |-> <<800, 1248, 2048>>]

FixedDims == {1024, 2047, 2048, 2049, 3000}

\* line 253: dsize[-1] != 2048 and dsize[-2] != 2048
NotFixedSize(h, w) == w # FixedSize /\ h # FixedSize

InitFixed ==
    /\ pc = "fixed_call"
    /\ PartIdle /\ TtaIdle /\ EvalIdle
    /\ dsize \in FixedDims \X FixedDims
    /\ probe \in Probes(dsize[1]) \X Probes(dsize[2])
    /\ xidx = Unset /\ yidx = Unset
    /\ ti = 0 /\ tj = 0
    /\ cell = Zero /\ cell_writes = 0
    /\ model_calls = 0 /\ predicted = "unset"

\* lines 252-255: the size test; "return None"
FixedReject ==
    /\ pc = "fixed_call"
    /\ NotFixedSize(dsize[1], dsize[2])
    /\ predicted' = "None"
    /\ pc' = "fixed_none"
    /\ UNCHANGED <<partVars, ttaVars, evalVars, dsize, probe, xidx, yidx, ti, tj, cell,
                   cell_writes, model_calls>>

\* lines 252-266: the size test passed, np.zeros and the loop heads
FixedAccept ==
    /\ pc = "fixed_call"
    /\ ~NotFixedSize(dsize[1], dsize[2])
    /\ ti' = 1 /\ tj' = 1
    /\ pc' = "fixed_loop"
    /\ UNCHANGED <<partVars, ttaVars, evalVars, dsize, probe, xidx, yidx, cell,
                   cell_writes, model_calls, predicted>>

\* lines 267-271: one iteration of the inner loop
FixedTile ==
    /\ pc = "fixed_loop"
    /\ ti <= 3
    /\ LET ax == AxisCopy(FixedGrid, ti, dsize[1])
           ay == AxisCopy(FixedGrid, tj, dsize[2])
           hit == /\ ax.lo <= probe[1] /\ probe[1] < ax.hi
                  /\ ay.lo <= probe[2] /\ probe[2] < ay.hi
       IN  /\ model_calls' = model_calls + 1
           /\ IF ax.ok /\ ay.ok
                THEN /\ cell' = IF hit THEN <<AxisSrc(ax, probe[1]), AxisSrc(ay, probe[2])>>
                                ELSE cell
                     /\ cell_writes' = IF hit THEN cell_writes + 1 ELSE cell_writes
                     /\ IF tj < 3
                          THEN tj' = tj + 1 /\ ti' = ti
                          ELSE tj' = 1 /\ ti' = ti + 1
                     /\ pc' = pc
                ELSE \* ValueError: could not broadcast input array
                     /\ pc' = "error"
                     /\ UNCHANGED <<cell, cell_writes, ti, tj>>
    /\ UNCHANGED <<partVars, ttaVars, evalVars, dsize, probe, xidx, yidx, predicted>>

\* line 275
FixedReturn ==
    /\ pc = "fixed_loop"
    /\ ti > 3
    /\ predicted' = "canvas"
    /\ pc' = "fixed_done"
    /\ UNCHANGED <<partVars, ttaVars, evalVars, dsize, probe, xidx, yidx, ti, tj, cell,
                   cell_writes, model_calls>>

NextFixed == FixedReject \/ FixedAccept \/ FixedTile \/ FixedReturn

SpecFixed == InitFixed /\ [][NextFixed]_vars

\* C15: predict_samples_2048x2048 returns None without a model call
\* whenever the height or the width differs from 2048; the model is invoked,
\* on the 3 x 3 grid, only when both are 2048.
ClaimC15_RejectsUnlessBoth2048 ==
    /\ (dsize[1] # FixedSize \/ dsize[2] # FixedSize) =>
          /\ model_calls = 0
          /\ pc \in {"fixed_call", "fixed_none"}
          /\ pc = "fixed_none" => predicted = "None"
    /\ (dsize[1] = FixedSize /\ dsize[2] = FixedSize) =>
          /\ pc # "fixed_none"
          /\ pc = "fixed_done" => model_calls = 9

====
